---- MODULE Spec2Model ----
(***************************************************************************)
(* Model of the PythonInterpreter execution engine (src/src/interpreter.ts) *)
(* and of the PythonLinter analysis pass it calls (src/src/index.ts).       *)
(*                                                                         *)
(* Strings are sequences of one-character strings, so that split, join,    *)
(* includes and the regular expressions of the source are computed.        *)
(* A ChildProcess object is identified with the number of the call that    *)
(* spawned it.                                                             *)
(***************************************************************************)
EXTENDS Integers, Sequences, FiniteSets, TLC

(* ---------------------------------------------------------------------- *)
(* Bounds of the model                                                     *)
(* ---------------------------------------------------------------------- *)
MaxExecs == 2
MaxUpdates == 1
MaxKillAll == 1
MaxChunks == 2
MaxLints == 2

(* ---------------------------------------------------------------------- *)
(* JavaScript values                                                       *)
(* ---------------------------------------------------------------------- *)
\* an optional value (a property that may be undefined, an exit code that may
\* be null) is the empty tuple or the one-element tuple of the value
None == <<>>
Some(v) == <<v>>
\* the rule of a LintError that sets none
Undef == "undefined"

\* a || b where a is an optional number: undefined, null and 0 are falsy
OrElse(a, b) == IF a = None \/ a[1] = 0 THEN b ELSE a[1]
\* a || b where a is an optional string: undefined and '' are falsy
OrElseStr(a, b) == IF a = None \/ a[1] = "" THEN b ELSE a[1]
\* the truthiness of an optional boolean
Truthy(a) == a # None /\ a[1] = TRUE

NL == "\n"

RECURSIVE Concat(_)
Concat(ss) == IF ss = <<>> THEN <<>> ELSE Head(ss) \o Concat(Tail(ss))

\* String.prototype.split(sep) for a one-character separator: the pieces
\* of s from position from on
RECURSIVE SplitFrom(_, _, _)
SplitFrom(s, sep, from) ==
    LET seps == {i \in from..Len(s) : s[i] = sep}
    IN IF seps = {} THEN << SubSeq(s, from, Len(s)) >>
       ELSE LET next == CHOOSE i \in seps : \A j \in seps : i <= j
            IN << SubSeq(s, from, next - 1) >> \o SplitFrom(s, sep, next + 1)

Split(s, sep) == SplitFrom(s, sep, 1)

\* Array.prototype.join(sep)
RECURSIVE Join(_, _)
Join(ss, sep) ==
    IF ss = <<>> THEN <<>>
    ELSE IF Len(ss) = 1 THEN ss[1]
    ELSE ss[1] \o <<sep>> \o Join(Tail(ss), sep)

StartsAt(s, sub, i) ==
    /\ i >= 1
    /\ i + Len(sub) - 1 <= Len(s)
    /\ SubSeq(s, i, i + Len(sub) - 1) = sub

\* String.prototype.includes
Includes(s, sub) == \E i \in 1..(Len(s) + 1) : StartsAt(s, sub, i)

IsSpace(c) == c \in {" ", "\t", NL}
DigitChars == <<"0", "1", "2", "3", "4", "5", "6", "7", "8", "9">>
Digits == <<"0", "1", "2", "3", "4", "5", "6", "7", "8", "9">>
IsDigit(c) == \E d \in 1..10 : Digits[d] = c
DigitVal(c) == (CHOOSE d \in 1..10 : Digits[d] = c) - 1

\* String.prototype.trim
RECURSIVE TrimLeft(_)
TrimLeft(s) == IF s # <<>> /\ IsSpace(Head(s)) THEN TrimLeft(Tail(s)) ELSE s
RECURSIVE TrimRight(_)
TrimRight(s) ==
    IF s # <<>> /\ IsSpace(s[Len(s)]) THEN TrimRight(SubSeq(s, 1, Len(s) - 1)) ELSE s
Trim(s) == TrimRight(TrimLeft(s))

\* number of characters c from position i on that satisfy the class
RECURSIVE SpaceRun(_, _)
SpaceRun(s, i) == IF i <= Len(s) /\ IsSpace(s[i]) THEN 1 + SpaceRun(s, i + 1) ELSE 0
RECURSIVE DigitRun(_, _)
DigitRun(s, i) == IF i <= Len(s) /\ IsDigit(s[i]) THEN 1 + DigitRun(s, i + 1) ELSE 0

\* parseInt(digits, 10)
RECURSIVE ParseInt(_)
ParseInt(ds) ==
    IF ds = <<>> THEN 0
    ELSE ParseInt(SubSeq(ds, 1, Len(ds) - 1)) * 10 + DigitVal(ds[Len(ds)])


(* ---------------------------------------------------------------------- *)
(* String literals of the source and of the modelled inputs                *)
(* ---------------------------------------------------------------------- *)
KwImport == <<"i", "m", "p", "o", "r", "t">>
KwOs == <<"o", "s">>
KwSubprocess == <<"s", "u", "b", "p", "r", "o", "c", "e", "s", "s">>
KwSys == <<"s", "y", "s">>
KwExec == <<"e", "x", "e", "c">>
KwEval == <<"e", "v", "a", "l">>
KwDunderImport == <<"_", "_", "i", "m", "p", "o", "r", "t", "_", "_">>
KwParen == <<"(">>
KwSyntaxError == <<"S", "y", "n", "t", "a", "x", "E", "r", "r", "o", "r">>
KwIndentationError == <<"I", "n", "d", "e", "n", "t", "a", "t", "i", "o", "n", "E", "r", "r", "o", "r">>
KwLine == <<"l", "i", "n", "e", " ">>
MsgLintingFailed == <<"L", "i", "n", "t", "i", "n", "g", " ", "f", "a", "i", "l", "e", "d", ":", " ">>
MsgPythonExecutionError == <<"P", "y", "t", "h", "o", "n", " ", "e", "x", "e", "c", "u", "t", "i", "o", "n", " ", "e", "r", "r", "o", "r", ":", " ">>
MsgExecutionFailed == <<"E", "x", "e", "c", "u", "t", "i", "o", "n", " ", "f", "a", "i", "l", "e", "d", ":", " ">>
MsgOs == <<"P", "o", "t", "e", "n", "t", "i", "a", "l", "l", "y", " ", "d", "a", "n", "g", "e", "r", "o", "u", "s", ":", " ", "o", "s", " ", "m", "o", "d", "u", "l", "e", " ", "i", "m", "p", "o", "r", "t">>
MsgSubprocess == <<"P", "o", "t", "e", "n", "t", "i", "a", "l", "l", "y", " ", "d", "a", "n", "g", "e", "r", "o", "u", "s", ":", " ", "s", "u", "b", "p", "r", "o", "c", "e", "s", "s", " ", "m", "o", "d", "u", "l", "e", " ", "i", "m", "p", "o", "r", "t">>
MsgSys == <<"P", "o", "t", "e", "n", "t", "i", "a", "l", "l", "y", " ", "d", "a", "n", "g", "e", "r", "o", "u", "s", ":", " ", "s", "y", "s", " ", "m", "o", "d", "u", "l", "e", " ", "i", "m", "p", "o", "r", "t">>
MsgExec == <<"P", "o", "t", "e", "n", "t", "i", "a", "l", "l", "y", " ", "d", "a", "n", "g", "e", "r", "o", "u", "s", ":", " ", "e", "x", "e", "c", "(", ")", " ", "f", "u", "n", "c", "t", "i", "o", "n", " ", "c", "a", "l", "l">>
MsgEval == <<"P", "o", "t", "e", "n", "t", "i", "a", "l", "l", "y", " ", "d", "a", "n", "g", "e", "r", "o", "u", "s", ":", " ", "e", "v", "a", "l", "(", ")", " ", "f", "u", "n", "c", "t", "i", "o", "n", " ", "c", "a", "l", "l">>
MsgDunderImport == <<"P", "o", "t", "e", "n", "t", "i", "a", "l", "l", "y", " ", "d", "a", "n", "g", "e", "r", "o", "u", "s", ":", " ", "_", "_", "i", "m", "p", "o", "r", "t", "_", "_", "(", ")", " ", "f", "u", "n", "c", "t", "i", "o", "n", " ", "c", "a", "l", "l">>
ErrENOENT == <<"s", "p", "a", "w", "n", " ", "E", "N", "O", "E", "N", "T">>
ErrENOSPC == <<"E", "N", "O", "S", "P", "C">>
CodePlain == <<"x", "=", "1">>
CodeRisky == <<"i", "m", "p", "o", "r", "t", " ", "o", "s", NL, "e", "x", "e", "c", "(", "x", ")">>
CodeBroken == <<"x", "=", "(", NL, " ", "y">>
DiagBroken == <<" ", " ", "F", "i", "l", "e", " ", "\"", "f", "\"", ",", " ", "l", "i", "n", "e", " ", "1", NL, " ", " ", " ", " ", "x", "=", "(", NL, "S", "y", "n", "t", "a", "x", "E", "r", "r", "o", "r", ":", " ", "n", "e", "v", "e", "r", " ", "c", "l", "o", "s", "e", "d", NL, "I", "n", "d", "e", "n", "t", "a", "t", "i", "o", "n", "E", "r", "r", "o", "r", ":", " ", "a", "t", " ", "l", "i", "n", "e", " ", "2", NL>>
OutLine == <<"a", NL>>
KwFrom == <<"f", "r", "o", "m", " ">>
KwAs == <<" ", "a", "s", " ">>
CodeIndented == <<"x", "=", "1", NL, " ", " ", "y", "=", "2">>
CodeTabbed == <<"i", "f", " ", "1", ":", NL, "\t", "x", "=", "1", NL, " ", " ", " ", " ", " ", " ", " ", " ", "y", "=", "2">>
CodeAliased == <<"i", "m", "p", "o", "r", "t", " ", "o", "s", " ", "a", "s", " ", "x", NL, "f", "r", "o", "m", " ", "o", "s", " ", "i", "m", "p", "o", "r", "t", " ", "f">>
CodeDouble == <<"x", "=", "1", NL, "i", "m", "p", "o", "r", "t", " ", "o", "s", ";", " ", "i", "m", "p", "o", "r", "t", " ", "s", "y", "s">>
CodeImports == <<"i", "m", "p", "o", "r", "t", " ", "o", "s", NL, "i", "m", "p", "o", "r", "t", " ", "s", "u", "b", "p", "r", "o", "c", "e", "s", "s", NL, "i", "m", "p", "o", "r", "t", " ", "s", "y", "s">>
\* what py_compile writes for CodeIndented and CodeTabbed in a file of that name
DiagIndented(file) ==
    <<"S", "o", "r", "r", "y", ":", " ", "I", "n", "d", "e", "n", "t", "a", "t", "i", "o", "n", "E", "r", "r", "o", "r", ":", " ", "u", "n", "e", "x", "p", "e", "c", "t", "e", "d", " ", "i", "n", "d", "e", "n", "t", " ", "(">>
    \o file \o <<",", " ", "l", "i", "n", "e", " ", "2", ")">>
DiagTabbed(file) ==
    <<"S", "o", "r", "r", "y", ":", " ", "T", "a", "b", "E", "r", "r", "o", "r", ":", " ", "i", "n", "c", "o", "n", "s", "i", "s", "t", "e", "n", "t", " ", "u", "s", "e", " ", "o", "f", " ", "t", "a", "b", "s", " ", "a", "n", "d", " ", "s", "p", "a", "c", "e", "s", " ", "i", "n", " ", "i", "n", "d", "e", "n", "t", "a", "t", "i", "o", "n", " ", "(">>
    \o file \o <<",", " ", "l", "i", "n", "e", " ", "3", ")">>
\* names createTempFile gives the transient file
FileA == <<"p", "y", "t", "h", "o", "n", "_", "l", "i", "n", "t", "_", "1", "_", "a", ".", "p", "y">>
FileB == <<"p", "y", "t", "h", "o", "n", "_", "l", "i", "n", "t", "_", "2", "_", "b", ".", "p", "y">>
ErrOut == <<"e", NL>>

(* ---------------------------------------------------------------------- *)
(* PythonLinter (src/src/index.ts, from line 76)                           *)
(* ---------------------------------------------------------------------- *)

\* /kw1\s+kw2/ (minSpaces = 1) and /kw1\s*kw2/ (minSpaces = 0) tested on a line
RegexTest(line, kw1, minSpaces, kw2) ==
    \E i \in 1..Len(line) :
        /\ StartsAt(line, kw1, i)
        /\ SpaceRun(line, i + Len(kw1)) >= minSpaces
        /\ StartsAt(line, kw2, i + Len(kw1) + SpaceRun(line, i + Len(kw1)))

\* line.match(/line (\d+)/): the leftmost match, its group parsed by parseInt
LineMatches(line) ==
    {i \in 1..Len(line) : StartsAt(line, KwLine, i) /\ DigitRun(line, i + Len(KwLine)) >= 1}

LineNumberOf(line) ==
    IF LineMatches(line) = {} THEN 1
    ELSE LET i == CHOOSE k \in LineMatches(line) : \A m \in LineMatches(line) : k <= m
             from == i + Len(KwLine)
         IN ParseInt(SubSeq(line, from, from + DigitRun(line, from) - 1))

\* the close handler of checkSyntax: one error per diagnostic line naming
\* SyntaxError or IndentationError
RECURSIVE SyntaxErrorsOf(_)
SyntaxErrorsOf(lines) ==
    IF lines = <<>> THEN <<>>
    ELSE LET line == Head(lines)
             here == IF Includes(line, KwSyntaxError) \/ Includes(line, KwIndentationError)
                     THEN << [line |-> LineNumberOf(line), column |-> 1,
                              message |-> Trim(line), severity |-> "error",
                              rule |-> "syntax-error"] >>
                     ELSE <<>>
         IN here \o SyntaxErrorsOf(Tail(lines))

\* a checkSyntax whose error handler resolves without an error entry
CheckSyntaxSilentOnSpawnError(cc) ==
    IF ~cc.spawned THEN <<>>
    ELSE IF cc.code # 0 /\ cc.stderr # <<>>
         THEN SyntaxErrorsOf(Split(cc.stderr, NL))
         ELSE <<>>

\* checkSyntax: cc is what the spawned compile check does: it fails to spawn
\* (error event) or closes with an exit code and the text it wrote to stderr
CheckSyntax(cc) ==
    IF ~cc.spawned
    THEN << [line |-> 1, column |-> 1,
             message |-> MsgPythonExecutionError \o cc.error,
             severity |-> "error", rule |-> Undef] >>
    ELSE IF cc.code # 0 /\ cc.stderr # <<>>
         THEN SyntaxErrorsOf(Split(cc.stderr, NL))
         ELSE <<>>

\* a pattern table that lists the calls only
dangerousPatternsCallsOnly ==
    << [kw1 |-> KwExec, min |-> 0, kw2 |-> KwParen, message |-> MsgExec],
       [kw1 |-> KwEval, min |-> 0, kw2 |-> KwParen, message |-> MsgEval],
       [kw1 |-> KwDunderImport, min |-> 0, kw2 |-> KwParen, message |-> MsgDunderImport] >>

\* the table of performBasicSecurityCheck: /kw1\s+kw2/ for the imports,
\* /kw1\s*\(/ for the calls
dangerousPatterns ==
    << [kw1 |-> KwImport, min |-> 1, kw2 |-> KwOs, message |-> MsgOs],
       [kw1 |-> KwImport, min |-> 1, kw2 |-> KwSubprocess, message |-> MsgSubprocess],
       [kw1 |-> KwImport, min |-> 1, kw2 |-> KwSys, message |-> MsgSys],
       [kw1 |-> KwExec, min |-> 0, kw2 |-> KwParen, message |-> MsgExec],
       [kw1 |-> KwEval, min |-> 0, kw2 |-> KwParen, message |-> MsgEval],
       [kw1 |-> KwDunderImport, min |-> 0, kw2 |-> KwParen, message |-> MsgDunderImport] >>

\* the inner loop of performBasicSecurityCheck: the patterns from k on
RECURSIVE WarningsOfLine(_, _, _)
WarningsOfLine(line, index, k) ==
    IF k > Len(dangerousPatterns) THEN <<>>
    ELSE LET p == dangerousPatterns[k]
             here == IF RegexTest(line, p.kw1, p.min, p.kw2)
                     THEN << [line |-> index + 1, column |-> 1,
                              message |-> p.message, rule |-> "security-warning"] >>
                     ELSE <<>>
         IN here \o WarningsOfLine(line, index, k + 1)

RECURSIVE WarningsFrom(_, _)
WarningsFrom(lines, index) ==
    IF index >= Len(lines) THEN <<>>
    ELSE WarningsOfLine(lines[index + 1], index, 1) \o WarningsFrom(lines, index + 1)

performBasicSecurityCheck(code) == WarningsFrom(Split(code, NL), 0)

\* a lintCode that runs the security check whatever strict is
lintCodeAlwaysHeuristic(snip, strict) ==
    IF ~snip.writeOk
    THEN [isValid |-> FALSE,
          errors |-> << [line |-> 1, column |-> 1,
                         message |-> MsgLintingFailed \o snip.writeError,
                         severity |-> "error", rule |-> Undef] >>,
          warnings |-> <<>>]
    ELSE LET errors == CheckSyntax(snip.cc)
             warnings == performBasicSecurityCheck(snip.code)
         IN [isValid |-> Len(errors) = 0, errors |-> errors, warnings |-> warnings]

\* a lintCode for which a warning makes the snippet invalid
lintCodeWarningsInvalidate(snip, strict) ==
    IF ~snip.writeOk
    THEN [isValid |-> FALSE,
          errors |-> << [line |-> 1, column |-> 1,
                         message |-> MsgLintingFailed \o snip.writeError,
                         severity |-> "error", rule |-> Undef] >>,
          warnings |-> <<>>]
    ELSE LET errors == CheckSyntax(snip.cc)
             warnings == IF strict # Some(FALSE) THEN performBasicSecurityCheck(snip.code) ELSE <<>>
         IN [isValid |-> Len(errors) = 0 /\ Len(warnings) = 0,
             errors |-> errors, warnings |-> warnings]

\* lintCode: strict is options.strict, an optional boolean; snip.code is the
\* snippet, snip.writeOk whether the linter's transient file could be written (snip.writeError the fault otherwise),
\* snip.cc the behaviour of the compile check on it
lintCode(snip, strict) ==
    IF ~snip.writeOk
    THEN [isValid |-> FALSE,
          errors |-> << [line |-> 1, column |-> 1,
                         message |-> MsgLintingFailed \o snip.writeError,
                         severity |-> "error", rule |-> Undef] >>,
          warnings |-> <<>>]
    ELSE LET errors == CheckSyntax(snip.cc)
             warnings == IF strict # Some(FALSE) THEN performBasicSecurityCheck(snip.code) ELSE <<>>
         IN [isValid |-> Len(errors) = 0, errors |-> errors, warnings |-> warnings]


(* ---------------------------------------------------------------------- *)
(* Inputs of the engine                                                    *)
(* ---------------------------------------------------------------------- *)
DefaultTimeout == 30000
DefaultMaxOutputLines == 1000

\* a snippet with what the outside world does with it: the linter's file
\* write and the interpreter's compile check
Snippet(name) ==
    CASE name = "plain" ->
           [code |-> CodePlain, writeOk |-> TRUE, writeError |-> <<>>,
            cc |-> [spawned |-> TRUE, error |-> <<>>, code |-> 0, stderr |-> <<>>]]
      [] name = "risky" ->
           [code |-> CodeRisky, writeOk |-> TRUE, writeError |-> <<>>,
            cc |-> [spawned |-> TRUE, error |-> <<>>, code |-> 0, stderr |-> <<>>]]
      [] name = "broken" ->
           [code |-> CodeBroken, writeOk |-> TRUE, writeError |-> <<>>,
            cc |-> [spawned |-> TRUE, error |-> <<>>, code |-> 1, stderr |-> DiagBroken]]

\* the snippets given to lintCode directly; the diagnostic of the compile
\* check names the transient file where py_compile prints it
SnippetIn(name, file) ==
    CASE name \in {"plain", "risky", "broken"} -> Snippet(name)
      [] name = "indented" ->
           [code |-> CodeIndented, writeOk |-> TRUE, writeError |-> <<>>,
            cc |-> [spawned |-> TRUE, error |-> <<>>, code |-> 1,
                    stderr |-> DiagIndented(file)]]
      [] name = "tabbed" ->
           [code |-> CodeTabbed, writeOk |-> TRUE, writeError |-> <<>>,
            cc |-> [spawned |-> TRUE, error |-> <<>>, code |-> 1,
                    stderr |-> DiagTabbed(file)]]
      [] name = "aliased" ->
           [code |-> CodeAliased, writeOk |-> TRUE, writeError |-> <<>>,
            cc |-> [spawned |-> TRUE, error |-> <<>>, code |-> 0, stderr |-> <<>>]]
      [] name = "double" ->
           [code |-> CodeDouble, writeOk |-> TRUE, writeError |-> <<>>,
            cc |-> [spawned |-> TRUE, error |-> <<>>, code |-> 0, stderr |-> <<>>]]
      [] name = "imports" ->
           [code |-> CodeImports, writeOk |-> TRUE, writeError |-> <<>>,
            cc |-> [spawned |-> TRUE, error |-> <<>>, code |-> 0, stderr |-> <<>>]]

\* an environment maps every key to a tuple of strings, empty when the key is absent
EnvKeyOrder ==
    <<"PATH", "MALICIOUS_VAR", "UNSAFE_MODE", "ALLOW_SHELL_ACCESS", "ALLOW_FS_ACCESS",
      "ALLOW_NETWORK_ACCESS", "PYTHON_INTERPRETER_TEMP_DIR", "PYTHON_INTERPRETER_CONFIG">>
EnvKeys == {EnvKeyOrder[i] : i \in 1..Len(EnvKeyOrder)}
EmptyEnv == [k \in EnvKeys |-> <<>>]
\* { ...a, ...b } on environments
Overlay(a, b) == [k \in EnvKeys |-> IF b[k] # <<>> THEN b[k] ELSE a[k]]
BaseEnv == [EmptyEnv EXCEPT !["PATH"] = <<"/bin">>]
\* a per-call environment: it replaces a key of the base, adds one, and
\* names a key executeDirectly sets itself
CallEnv ==
    [EmptyEnv EXCEPT !["PATH"] = <<"/evil">>, !["MALICIOUS_VAR"] = <<"injected_value">>,
                     !["PYTHON_INTERPRETER_TEMP_DIR"] = <<"/mine">>]

NoOptions == [timeout |-> None, cwd |-> None, env |-> None, stream |-> None, sanitize |-> None]
NoContext ==
    [bypassSandbox |-> None, allowShellAccess |-> None, allowFileSystemAccess |-> None,
     allowNetworkAccess |-> None]

\* interpreter paths: the second one names no executable
Spawnable(path) == path \in {"python3", "python"}

\* the constructor: defaults overlaid by the caller's config; a partial
\* config gives every field as an optional value
DefaultConfig ==
    [pythonPath |-> "python3", timeout |-> DefaultTimeout,
     maxOutputLines |-> DefaultMaxOutputLines, enableLinting |-> TRUE,
     allowUnsafeOperations |-> FALSE, workingDirectory |-> "/cwd",
     environment |-> BaseEnv]

NoConfig == [k \in DOMAIN DefaultConfig |-> None]

\* { ...a, ...b } and Object.assign(a, b) for a config a and a partial config b
Merge(a, b) == [k \in DOMAIN a |-> IF b[k] # None THEN b[k][1] ELSE a[k]]

NewInterpreter(cfg) == Merge(DefaultConfig, cfg)

(* ---------------------------------------------------------------------- *)
(* The constructors of src/src/utils.ts                                    *)
(* ---------------------------------------------------------------------- *)
\* Number.MAX_SAFE_INTEGER is 2^53 - 1; the model keeps the largest integer
\* its checker represents, which is above every other number of the model
MaxSafeInteger == 2147483647

\* { ...a, ...b } for two partial configs
MergeOptions(a, b) == [k \in DOMAIN a |-> IF b[k] # None THEN b[k] ELSE a[k]]

\* a constructor that only merges, without forcing anything afterwards
createInterpreterNoFloor(cfg) ==
    NewInterpreter(
        MergeOptions([NoConfig EXCEPT !.enableLinting = Some(TRUE),
                                      !.allowUnsafeOperations = Some(FALSE),
                                      !.timeout = Some(30000),
                                      !.maxOutputLines = Some(1000)], cfg))

\* createInterpreter: mergedConfig, then safeConfig, then the constructor
createInterpreter(cfg) ==
    LET mergedConfig ==
            MergeOptions([NoConfig EXCEPT !.enableLinting = Some(TRUE),
                                          !.allowUnsafeOperations = Some(FALSE),
                                          !.timeout = Some(30000),
                                          !.maxOutputLines = Some(1000)], cfg)
        safeConfig ==
            [mergedConfig EXCEPT !.enableLinting = Some(TRUE),
                                 !.allowUnsafeOperations = Some(FALSE)]
    IN NewInterpreter(safeConfig)

\* createUnsafeInterpreter: unsafeConfig, then the constructor
createUnsafeInterpreter(cfg) ==
    LET unsafeConfig ==
            MergeOptions([NoConfig EXCEPT !.enableLinting = Some(FALSE),
                                          !.allowUnsafeOperations = Some(TRUE),
                                          !.timeout = Some(0),
                                          !.maxOutputLines = Some(MaxSafeInteger)], cfg)
    IN NewInterpreter(unsafeConfig)

\* the baseConfig of each preset of createQuickInterpreter
Presets == <<"safe", "testing", "educational", "dangerous">>
baseConfig(preset) ==
    CASE preset = "safe" ->
           [NoConfig EXCEPT !.enableLinting = Some(TRUE),
                            !.allowUnsafeOperations = Some(FALSE),
                            !.timeout = Some(10000), !.maxOutputLines = Some(100)]
      [] preset = "testing" ->
           [NoConfig EXCEPT !.enableLinting = Some(TRUE),
                            !.allowUnsafeOperations = Some(FALSE),
                            !.timeout = Some(60000), !.maxOutputLines = Some(5000)]
      [] preset = "educational" ->
           [NoConfig EXCEPT !.enableLinting = Some(TRUE),
                            !.allowUnsafeOperations = Some(TRUE),
                            !.timeout = Some(30000), !.maxOutputLines = Some(1000)]
      [] preset = "dangerous" ->
           [NoConfig EXCEPT !.enableLinting = Some(FALSE),
                            !.allowUnsafeOperations = Some(TRUE),
                            !.timeout = Some(0), !.maxOutputLines = Some(MaxSafeInteger)]

\* a named-preset constructor that lets the preset win over the caller
createQuickInterpreterPresetFirst(preset, customConfig) ==
    NewInterpreter(MergeOptions(customConfig, baseConfig(preset)))

createQuickInterpreter(preset, customConfig) ==
    NewInterpreter(MergeOptions(baseConfig(preset), customConfig))

\* a way of building the engine: the function called, its preset if it takes
\* one, and the config it is given
New(cfg) == [how |-> "new", preset |-> "none", custom |-> cfg]
Safe(cfg) == [how |-> "createInterpreter", preset |-> "none", custom |-> cfg]
Unsafe(cfg) == [how |-> "createUnsafeInterpreter", preset |-> "none", custom |-> cfg]
Quick(preset, cfg) == [how |-> "createQuickInterpreter", preset |-> preset, custom |-> cfg]

Construct(c) ==
    CASE c.how = "new" -> NewInterpreter(c.custom)
      [] c.how = "createInterpreter" -> createInterpreter(c.custom)
      [] c.how = "createUnsafeInterpreter" -> createUnsafeInterpreter(c.custom)
      [] c.how = "createQuickInterpreter" -> createQuickInterpreter(c.preset, c.custom)

\* the engine as constructed: how it was built, its policy then, and the
\* interpreter path its linter was given (line 39), which no later
\* updateConfig changes
Built(c) ==
    [how |-> c.how, preset |-> c.preset, custom |-> c.custom,
     config |-> Construct(c), linterPath |-> Construct(c).pythonPath]

\* the configs handed to the constructors of utils.ts
Overrides ==
    {NoConfig,
     [NoConfig EXCEPT !.enableLinting = Some(FALSE), !.allowUnsafeOperations = Some(TRUE)],
     [NoConfig EXCEPT !.enableLinting = Some(TRUE), !.allowUnsafeOperations = Some(FALSE)],
     [NoConfig EXCEPT !.timeout = Some(5000), !.maxOutputLines = Some(500),
                      !.pythonPath = Some("python")],
     [NoConfig EXCEPT !.timeout = Some(0)]}

\* The runs of the model are grouped in scenarios. A scenario fixes the
\* configs the interpreter may be constructed with, the executeCode and
\* executeUnsafe calls and the updateConfig arguments its callers may use,
\* whether they call killAllProcesses, and whether the guest writes output.
Scenario(s) ==
    CASE s = "policy" ->
           [constructors |-> {New(NoConfig)},
            requests |-> {[snip |-> "plain", options |-> NoOptions],
                          [snip |-> "broken", options |-> NoOptions]},
            unsafeRequests |->
                {[snip |-> "plain", context |-> NoContext],
                 [snip |-> "plain", context |-> [NoContext EXCEPT !.bypassSandbox = Some(TRUE)]]},
            updates |-> {[NoConfig EXCEPT !.timeout = Some(0)],
                         [NoConfig EXCEPT !.enableLinting = Some(FALSE)],
                         [NoConfig EXCEPT !.allowUnsafeOperations = Some(TRUE)]},
            killAll |-> FALSE, output |-> FALSE]
      [] s = "kill" ->
           [constructors |-> {New(NoConfig),
                              New([NoConfig EXCEPT !.pythonPath = Some("invalid_python_path")])},
            requests |-> {[snip |-> "plain", options |-> NoOptions],
                          [snip |-> "plain", options |-> [NoOptions EXCEPT !.stream = Some(TRUE)]],
                          [snip |-> "plain",
                           options |-> [NoOptions EXCEPT !.stream = Some(TRUE),
                                                         !.sanitize = Some(FALSE)]]},
            unsafeRequests |->
                {[snip |-> "plain", context |-> [NoContext EXCEPT !.bypassSandbox = Some(TRUE)]]},
            updates |-> {},
            killAll |-> TRUE, output |-> FALSE]
      [] s = "analysis" ->
           [constructors |-> {New(NoConfig)},
            requests |-> [snip : {"plain", "risky", "broken"},
                          options : {NoOptions, [NoOptions EXCEPT !.sanitize = Some(FALSE)]}],
            unsafeRequests |-> {},
            updates |-> {[NoConfig EXCEPT !.enableLinting = Some(FALSE)],
                         [NoConfig EXCEPT !.allowUnsafeOperations = Some(TRUE)]},
            killAll |-> FALSE, output |-> FALSE]
      [] s = "timer" ->
           [constructors |-> {New(NoConfig)},
            requests |-> [snip : {"plain"},
                          options : [timeout : {None, Some(0)}, cwd : {None}, env : {None},
                                     stream : {None, Some(TRUE)}, sanitize : {None}]],
            unsafeRequests |-> {},
            updates |-> {[NoConfig EXCEPT !.timeout = Some(0)]},
            killAll |-> FALSE, output |-> FALSE]
      [] s = "stream" ->
           [constructors |-> {New(NoConfig), New([NoConfig EXCEPT !.maxOutputLines = Some(1)])},
            requests |-> {[snip |-> "plain", options |-> [NoOptions EXCEPT !.stream = Some(TRUE)]],
                          [snip |-> "plain", options |-> NoOptions]},
            unsafeRequests |-> {[snip |-> "plain", context |-> NoContext]},
            updates |-> {},
            killAll |-> FALSE, output |-> TRUE]
      [] s = "env" ->
           [constructors |-> {New(NoConfig)},
            requests |-> [snip : {"plain"},
                          options : [timeout : {None}, cwd : {None},
                                     env : {None, Some(CallEnv)},
                                     stream : {None, Some(TRUE)}, sanitize : {None}]],
            unsafeRequests |-> {},
            updates |-> {},
            killAll |-> FALSE, output |-> FALSE]
      [] s = "restore" ->
           [constructors |-> {New([NoConfig EXCEPT !.enableLinting = Some(FALSE),
                                                   !.allowUnsafeOperations = Some(TRUE)])},
            requests |-> {},
            unsafeRequests |-> {[snip |-> "plain", context |-> NoContext]},
            updates |-> {[NoConfig EXCEPT !.enableLinting = Some(TRUE),
                                          !.allowUnsafeOperations = Some(FALSE),
                                          !.timeout = Some(5000)]},
            killAll |-> FALSE, output |-> FALSE]
      [] s = "lint" ->
           [constructors |-> {New(NoConfig),
                              New([NoConfig EXCEPT !.pythonPath = Some("invalid_python_path")])},
            requests |-> {}, unsafeRequests |-> {}, updates |-> {},
            killAll |-> FALSE, output |-> FALSE]
      [] s = "heuristic" ->
           [constructors |-> {New(NoConfig)},
            requests |-> {}, unsafeRequests |-> {}, updates |-> {},
            killAll |-> FALSE, output |-> FALSE]
      [] s = "factory" ->
           [constructors |->
                {Safe(c) : c \in Overrides} \cup {Unsafe(c) : c \in Overrides}
                \cup {Quick(Presets[i], c) : i \in 1..Len(Presets), c \in Overrides},
            requests |-> {[snip |-> "plain", options |-> NoOptions]},
            unsafeRequests |-> {},
            updates |-> {[NoConfig EXCEPT !.allowUnsafeOperations = Some(TRUE)]},
            killAll |-> FALSE, output |-> FALSE]

Scenarios ==
    {"policy", "kill", "analysis", "timer", "stream", "env", "factory", "lint", "heuristic",
     "restore"}

\* the direct calls of lintCode of a scenario: the snippets, the strict
\* options and the names createTempFile may give the transient file
LintInputs(s) ==
    CASE s = "lint" ->
           [snips |-> {"plain", "risky", "broken", "indented", "tabbed"},
            stricts |-> {None, Some(FALSE)},
            files |-> {FileA, FileB}]
      [] s = "heuristic" ->
           [snips |-> {"aliased", "double", "imports"},
            stricts |-> {None, Some(TRUE), Some(FALSE)},
            files |-> {FileA}]
      [] OTHER -> [snips |-> {}, stricts |-> {}, files |-> {}]

\* the guest of call e prints a line that starts with its own literal
StdoutChunks(e) == {<<DigitChars[e + 1]>> \o OutLine}
StderrChunks == {ErrOut}
ExitCodes == {0, 1}


(* ---------------------------------------------------------------------- *)
(* State of one PythonInterpreter                                          *)
(* ---------------------------------------------------------------------- *)
VARIABLES
    scn,              \* the scenario of the run
    built,            \* how the engine was constructed
    lint,             \* per direct call of lintCode: its position and what it met
    config,           \* this.config
    activeProcesses,  \* this.activeProcesses
    ex,               \* per call: its position, its closure variables, its process
    hist,             \* per call: what was the case when it was called and settled
    nCalls,           \* executeCode and executeUnsafe calls made
    nUpdates,         \* updateConfig calls made
    nKillAll,         \* killAllProcesses calls made
    killSent,         \* processes killAllProcesses has called kill('SIGKILL') on
    thrown            \* an exception has left killAllProcesses

vars == <<scn, built, lint, config, activeProcesses, ex, hist, nCalls, nUpdates, nKillAll,
          killSent, thrown>>

Execs == 1..MaxExecs

\* pc: idle (not called), linting (awaiting lintCode), writing (awaiting
\* createTempFile), running (process spawned, promise pending), done (the call
\* resolved with result), rejected (the call rejected)
\* proc: none, alive, killed (SIGKILL delivered, close event pending),
\* spawnfail (error event pending), closed, errored, errclosed (close event
\* after the error event)
BlankExec ==
    [pc |-> "idle", kind |-> "none", snip |-> "plain", options |-> NoOptions,
     originalEnableLinting |-> FALSE, originalAllowUnsafe |-> FALSE,
     gated |-> FALSE, strict |-> FALSE, lintResult |-> None,
     sanitizedCode |-> None, fileWritten |-> FALSE, cleanup |-> "none",
     spawnArgs |-> None, proc |-> "none", exitCode |-> None,
     timer |-> "none", delay |-> 0,
     stdout |-> <<>>, stderr |-> <<>>, outputLineCount |-> 0,
     events |-> <<>>, result |-> None, via |-> "none"]

BlankHist ==
    [cfgAtCall |-> None, updatesAtCall |-> 0, unsafeAtCall |-> {},
     cfgAtSettle |-> None, updatesAtSettle |-> 0,
     effectiveTimeout |-> None, killedByTimer |-> FALSE, killedByKillAll |-> FALSE,
     chunks |-> <<>>, errChunks |-> 0, errCounts |-> <<>>,
     bypass |-> FALSE, killAllAtCall |-> 0]

Lints == 1..MaxLints

\* pc: idle (not called), writing (awaiting createTempFile), checking
\* (awaiting checkSyntax), done (resolved with result)
\* fault: none, write (writeFile rejected), spawn (the compile check could
\* not be spawned)
\* cleanup: none, skipped, deleted, failed (unlink rejected)
BlankLint ==
    [pc |-> "idle", snip |-> "plain", strict |-> None, file |-> <<>>,
     fault |-> "none", cc |-> None, result |-> None, cleanup |-> "none"]

Streaming(x) == Truthy(x.options.stream)
InFlight(x) == x.pc \in {"linting", "writing", "running"}
UnsafeInFlight == {e \in Execs : ex[e].kind = "unsafe" /\ InFlight(ex[e])}

Init ==
    /\ scn \in Scenarios
    /\ built \in {Built(c) : c \in Scenario(scn).constructors}
    /\ config = built.config
    /\ lint = [l \in Lints |-> BlankLint]
    /\ activeProcesses = {}
    /\ ex = [e \in Execs |-> BlankExec]
    /\ hist = [e \in Execs |-> BlankHist]
    /\ nCalls = 0
    /\ nUpdates = 0
    /\ nKillAll = 0
    /\ killSent = {}
    /\ thrown = FALSE

(* ---------------------------------------------------------------------- *)
(* executeCode up to its first await, executeUnsafe, updateConfig          *)
(* ---------------------------------------------------------------------- *)

\* sanitizeCode returns its argument
sanitizeCode(code) == code

\* lines 71-73: the code handed to createTempFile under the config cfg
CodeToWrite(cfg, snip) ==
    IF cfg.allowUnsafeOperations THEN Snippet(snip).code
    ELSE sanitizeCode(Snippet(snip).code)

\* lines 54-55: whether the call awaits lintCode
Gates(cfg, options) == cfg.enableLinting /\ options.sanitize # Some(FALSE)

\* executeCode from its entry to its first await, under the config cfg
executeCode(cfg, kind, snip, options) ==
    IF Gates(cfg, options)
    THEN [BlankExec EXCEPT !.pc = "linting", !.kind = kind, !.snip = snip,
                           !.options = options, !.gated = TRUE,
                           !.strict = ~cfg.allowUnsafeOperations]
    ELSE [BlankExec EXCEPT !.pc = "writing", !.kind = kind, !.snip = snip,
                           !.options = options,
                           !.sanitizedCode = Some(CodeToWrite(cfg, snip))]

CallHist ==
    [BlankHist EXCEPT !.cfgAtCall = Some(config), !.updatesAtCall = nUpdates,
                      !.unsafeAtCall = UnsafeInFlight, !.killAllAtCall = nKillAll]

ExecuteCode ==
    /\ nCalls < MaxExecs
    /\ \E req \in Scenario(scn).requests :
         ex' = [ex EXCEPT ![nCalls + 1] =
                    executeCode(config, "execute", req.snip, req.options)]
    /\ hist' = [hist EXCEPT ![nCalls + 1] = CallHist]
    /\ nCalls' = nCalls + 1
    /\ UNCHANGED <<scn, built, lint, config, activeProcesses, nUpdates, nKillAll, killSent, thrown>>

Flag(a) == IF Truthy(a) THEN <<"true">> ELSE <<"false">>

\* lines 298-308
UnsafeOptions(cfg, context) ==
    [sanitize |-> Some(FALSE),
     timeout |-> Some(IF Truthy(context.bypassSandbox) THEN 0 ELSE cfg.timeout),
     env |-> Some([cfg.environment EXCEPT
                      !["UNSAFE_MODE"] = <<"true">>,
                      !["ALLOW_SHELL_ACCESS"] = Flag(context.allowShellAccess),
                      !["ALLOW_FS_ACCESS"] = Flag(context.allowFileSystemAccess),
                      !["ALLOW_NETWORK_ACCESS"] = Flag(context.allowNetworkAccess)]),
     cwd |-> None, stream |-> None]

\* lines 314-315
ForceUnsafe(cfg) == [cfg EXCEPT !.enableLinting = FALSE, !.allowUnsafeOperations = TRUE]

\* executeUnsafe up to the first await of the executeCode it calls
ExecuteUnsafe ==
    /\ nCalls < MaxExecs
    /\ \E req \in Scenario(scn).unsafeRequests :
         /\ ex' = [ex EXCEPT ![nCalls + 1] =
                       [executeCode(ForceUnsafe(config), "unsafe", req.snip,
                                    UnsafeOptions(config, req.context))
                          EXCEPT !.originalEnableLinting = config.enableLinting,
                                 !.originalAllowUnsafe = config.allowUnsafeOperations]]
         /\ hist' = [hist EXCEPT ![nCalls + 1] =
                        [CallHist EXCEPT !.bypass = Truthy(req.context.bypassSandbox)]]
    /\ config' = ForceUnsafe(config)
    /\ nCalls' = nCalls + 1
    /\ UNCHANGED <<scn, built, lint, activeProcesses, nUpdates, nKillAll, killSent, thrown>>

\* an updateConfig that turns linting off when it allows unsafe operations
updateConfigRepairing(cfg, newConfig) ==
    IF Merge(cfg, newConfig).allowUnsafeOperations
    THEN [Merge(cfg, newConfig) EXCEPT !.enableLinting = FALSE]
    ELSE Merge(cfg, newConfig)

\* updateConfig: Object.assign(this.config, newConfig)
updateConfig(cfg, newConfig) == Merge(cfg, newConfig)

\* getConfig: a shallow copy of this.config
getConfig(cfg) == [k \in DOMAIN cfg |-> cfg[k]]

UpdateConfig ==
    /\ nUpdates < MaxUpdates
    /\ \E newConfig \in Scenario(scn).updates : config' = updateConfig(config, newConfig)
    /\ nUpdates' = nUpdates + 1
    /\ UNCHANGED <<scn, built, lint, activeProcesses, ex, hist, nCalls, nKillAll, killSent, thrown>>

\* a finally block that forgets allowUnsafeOperations
RestoreConfigLintingOnly(cfg, x) ==
    IF x.kind = "unsafe"
    THEN [cfg EXCEPT !.enableLinting = x.originalEnableLinting]
    ELSE cfg

\* a finally block that restores only a policy nobody updated meanwhile
RestoreConfigUnlessUpdated(cfg, x) ==
    IF x.kind = "unsafe" /\ ~cfg.enableLinting /\ cfg.allowUnsafeOperations
    THEN [cfg EXCEPT !.enableLinting = x.originalEnableLinting,
                     !.allowUnsafeOperations = x.originalAllowUnsafe]
    ELSE cfg

\* the finally block of executeUnsafe (lines 320-323); x is the settling call
RestoreConfig(cfg, x) ==
    IF x.kind = "unsafe"
    THEN [cfg EXCEPT !.enableLinting = x.originalEnableLinting,
                     !.allowUnsafeOperations = x.originalAllowUnsafe]
    ELSE cfg

\* the call e settles: its caller's finally block runs
Settle(e) ==
    /\ config' = RestoreConfig(config, ex[e])
    /\ hist' = [hist EXCEPT ![e].cfgAtSettle = Some(config'),
                            ![e].updatesAtSettle = nUpdates]


(* ---------------------------------------------------------------------- *)
(* executeCode after lintCode and after createTempFile                     *)
(* ---------------------------------------------------------------------- *)

\* lines 58-66: the Result returned when the lint result is invalid
LintFailure(lintResult) ==
    [success |-> FALSE, stdout |-> <<>>,
     stderr |-> Join([i \in 1..Len(lintResult.errors) |-> lintResult.errors[i].message], NL),
     exitCode |-> 1]

\* an executeCode that never looks at isValid
AfterLintIgnoringValidity(x, cfg, lintResult) ==
    [x EXCEPT !.pc = "writing", !.lintResult = Some(lintResult),
              !.sanitizedCode = Some(CodeToWrite(cfg, x.snip))]

\* an executeCode that also returns early when there are warnings
AfterLintBlockingWarnings(x, cfg, lintResult) ==
    IF ~lintResult.isValid \/ Len(lintResult.warnings) > 0
    THEN [x EXCEPT !.pc = "done", !.lintResult = Some(lintResult),
                   !.result = Some(LintFailure(lintResult)), !.via = "lint"]
    ELSE [x EXCEPT !.pc = "writing", !.lintResult = Some(lintResult),
                   !.sanitizedCode = Some(CodeToWrite(cfg, x.snip))]

\* lines 58-73: executeCode resumed with the lint result; x is the call
AfterLint(x, cfg, lintResult) ==
    IF ~lintResult.isValid
    THEN [x EXCEPT !.pc = "done", !.lintResult = Some(lintResult),
                   !.result = Some(LintFailure(lintResult)), !.via = "lint"]
    ELSE [x EXCEPT !.pc = "writing", !.lintResult = Some(lintResult),
                   !.sanitizedCode = Some(CodeToWrite(cfg, x.snip))]

\* what the linter of an engine meets for the snippet: its compile check is
\* spawned with the path the linter was constructed with
LinterInput(snip, linterPath) ==
    IF Spawnable(linterPath) THEN Snippet(snip)
    ELSE [Snippet(snip) EXCEPT !.cc = [spawned |-> FALSE, error |-> ErrENOENT,
                                       code |-> 0, stderr |-> <<>>]]

LintDone(e) ==
    /\ ex[e].pc = "linting"
    /\ ex' = [ex EXCEPT ![e] =
                 AfterLint(ex[e], config,
                           lintCode(LinterInput(ex[e].snip, built.linterPath), Some(ex[e].strict)))]
    /\ IF ex'[e].pc = "done" THEN Settle(e) ELSE UNCHANGED <<config, hist>>
    /\ UNCHANGED <<scn, built, lint, activeProcesses, nCalls, nUpdates, nKillAll, killSent, thrown>>

\* lines 81-88: the Result of the catch block
CatchFailure(message) ==
    [success |-> FALSE, stdout |-> <<>>, stderr |-> MsgExecutionFailed \o message,
     exitCode |-> 1]

\* createTempFile rejects: fs.writeFile failed
WriteFailed(e) ==
    /\ ex[e].pc = "writing"
    /\ ex' = [ex EXCEPT ![e].pc = "done", ![e].result = Some(CatchFailure(ErrENOSPC)),
                        ![e].via = "catch"]
    /\ Settle(e)
    /\ UNCHANGED <<scn, built, lint, activeProcesses, nCalls, nUpdates, nKillAll, killSent, thrown>>

\* the decimal text of a number
RECURSIVE NumStr(_)
NumStr(n) ==
    IF n < 10 THEN DigitChars[n + 1]
    ELSE NumStr(n \div 10) \o DigitChars[(n % 10) + 1]
BoolStr(b) == IF b THEN "true" ELSE "false"

\* JSON.stringify(this.config), field by field
Stringify(cfg) ==
    <<cfg.pythonPath, NumStr(cfg.timeout), NumStr(cfg.maxOutputLines),
      BoolStr(cfg.enableLinting), BoolStr(cfg.allowUnsafeOperations),
      cfg.workingDirectory>>
    \o Concat([i \in 1..Len(EnvKeyOrder) |-> cfg.environment[EnvKeyOrder[i]]])

OptionsEnv(options) == IF options.env = None THEN EmptyEnv ELSE options.env[1]

\* lines 106-115 and 202-213: the arguments of spawn
SpawnArgs(cfg, options) ==
    [pythonPath |-> cfg.pythonPath,
     cwd |-> OrElseStr(options.cwd, cfg.workingDirectory),
     env |-> IF Truthy(options.stream)
             THEN Overlay(cfg.environment, OptionsEnv(options))
             ELSE [Overlay(cfg.environment, OptionsEnv(options)) EXCEPT
                      !["PYTHON_INTERPRETER_TEMP_DIR"] = <<"/tmp">>,
                      !["PYTHON_INTERPRETER_CONFIG"] = Stringify(cfg)]]

\* lines 120-123 and 217-219: the delay handed to setTimeout
TimerDelay(cfg, options) == OrElse(options.timeout, cfg.timeout)

\* the timeout the call asks for: its own if it gives one, else the policy's
EffectiveTimeout(cfg, options) ==
    IF options.timeout # None THEN options.timeout[1] ELSE cfg.timeout

\* createTempFile resolves; executeWithStreaming or executeDirectly runs up to
\* the return of its promise: spawn, track, arm the timer
Spawned(x, cfg) ==
    [x EXCEPT !.pc = "running", !.fileWritten = TRUE,
              !.spawnArgs = Some(SpawnArgs(cfg, x.options)),
              !.proc = IF Spawnable(cfg.pythonPath) THEN "alive" ELSE "spawnfail",
              !.timer = "armed", !.delay = TimerDelay(cfg, x.options)]

WriteDone(e) ==
    /\ ex[e].pc = "writing"
    /\ ex' = [ex EXCEPT ![e] = Spawned(ex[e], config)]
    /\ activeProcesses' = activeProcesses \cup {e}
    /\ hist' = [hist EXCEPT ![e].effectiveTimeout =
                                Some(EffectiveTimeout(config, ex[e].options))]
    /\ UNCHANGED <<scn, built, lint, config, nCalls, nUpdates, nKillAll, killSent, thrown>>


(* ---------------------------------------------------------------------- *)
(* The handlers of the spawned process and of the timer                    *)
(* ---------------------------------------------------------------------- *)

\* output.split('\n').length - 1
LineBoundaries(output) == Len(Split(output, NL)) - 1

\* a limit that allowUnsafeOperations does not waive
EmitsStdoutLimitOnly(cfg, outputLineCount) == outputLineCount < cfg.maxOutputLines

\* line 131: whether the stdout chunk is emitted as a StreamOutput
EmitsStdout(cfg, outputLineCount) ==
    cfg.allowUnsafeOperations \/ outputLineCount < cfg.maxOutputLines

\* a handler that keeps only the chunks it emits
AppendEmitted(text, output, emit) == IF emit THEN text \o output ELSE text

\* stdout += output (lines 127 and 222), whether or not the chunk is emitted
AppendOutput(text, output, emit) == text \o output

\* the guest process writes a chunk to stdout (lines 125-139 and 221-223)
StdoutData(e) ==
    /\ ex[e].pc = "running"
    /\ ex[e].proc \in {"alive", "killed"}
    /\ Scenario(scn).output
    /\ Len(hist[e].chunks) + hist[e].errChunks < MaxChunks
    /\ \E output \in StdoutChunks(e) :
         LET count == ex[e].outputLineCount + LineBoundaries(output)
             emit == Streaming(ex[e]) /\ EmitsStdout(config, count)
         IN /\ ex' = [ex EXCEPT
                        ![e].stdout = AppendOutput(@, output, emit),
                        ![e].outputLineCount = IF Streaming(ex[e]) THEN count ELSE @,
                        ![e].events = IF emit
                                      THEN Append(@, [type |-> "stdout", data |-> output])
                                      ELSE @]
            /\ hist' = [hist EXCEPT ![e].chunks =
                            Append(@, [data |-> output, emitted |-> emit,
                                       before |-> ex[e].outputLineCount,
                                       unsafeInFlight |-> UnsafeInFlight,
                                       updates |-> nUpdates,
                                       allowUnsafe |-> config.allowUnsafeOperations,
                                       limit |-> config.maxOutputLines])]
    /\ UNCHANGED <<scn, built, lint, config, activeProcesses, nCalls, nUpdates, nKillAll,
                   killSent, thrown>>

\* the guest process writes a chunk to stderr (lines 141-151 and 225-227)
StderrData(e) ==
    /\ ex[e].pc = "running"
    /\ ex[e].proc \in {"alive", "killed"}
    /\ Scenario(scn).output
    /\ Len(hist[e].chunks) + hist[e].errChunks < MaxChunks
    /\ \E output \in StderrChunks :
         ex' = [ex EXCEPT
                  ![e].stderr = @ \o output,
                  ![e].events = IF Streaming(ex[e])
                                THEN Append(@, [type |-> "stderr", data |-> output])
                                ELSE @]
    /\ hist' = [hist EXCEPT ![e].errChunks = @ + 1,
                            ![e].errCounts = Append(@, ex[e].outputLineCount)]
    /\ UNCHANGED <<scn, built, lint, config, activeProcesses, nCalls, nUpdates, nKillAll,
                   killSent, thrown>>

\* a kill that signals nothing
KillNothing(x) == x

\* python.kill('SIGKILL') on the process of x: a running process dies by the
\* signal and will report no exit code
Kill(x) == IF x.proc = "alive" THEN [x EXCEPT !.proc = "killed"] ELSE x

\* the timer callback (lines 120-123 and 217-219)
TimerFire(e) ==
    /\ ex[e].timer = "armed"
    /\ ex' = [ex EXCEPT ![e] =
                 [Kill(ex[e]) EXCEPT
                    !.timer = "fired",
                    !.events = IF Streaming(ex[e])
                               THEN Append(@, [type |-> "timeout", data |-> <<>>])
                               ELSE @]]
    /\ hist' = [hist EXCEPT ![e].killedByTimer = @ \/ ex[e].proc = "alive"]
    /\ UNCHANGED <<scn, built, lint, config, activeProcesses, nCalls, nUpdates, nKillAll,
                   killSent, thrown>>

\* a handler that empties the tracked set
UntrackAll(procs, e) == {}

\* this.activeProcesses.delete(python) in the close and error handlers
Untrack(procs, e) == procs \ {e}

\* what becomes of the execution file after the close handler: a streaming
\* call skips cleanupTempFile at random (line 169); cleanupTempFile, which
\* nothing awaits, deletes the file or swallows the failure of unlink
Cleanups(x) ==
    IF Streaming(x) THEN {"deleted", "failed", "skipped"} ELSE {"deleted", "failed"}

\* lines 157-163 and 233-239: the Result built by the close handler
CloseResult(x, code) ==
    [success |-> code = Some(0), stdout |-> x.stdout, stderr |-> x.stderr,
     exitCode |-> OrElse(code, 0)]

\* the close handler
Close(e) ==
    /\ ex[e].proc \in {"alive", "killed"}
    /\ \E code \in IF ex[e].proc = "killed" THEN {None} ELSE {Some(c) : c \in ExitCodes},
          cleanup \in Cleanups(ex[e]) :
         ex' = [ex EXCEPT
                  ![e].pc = "done", ![e].proc = "closed", ![e].exitCode = code,
                  ![e].timer = IF @ = "armed" THEN "cleared" ELSE @,
                  ![e].result = Some(CloseResult(ex[e], code)),
                  ![e].via = "close",
                  ![e].events = IF Streaming(ex[e])
                                THEN Append(@, [type |-> "complete",
                                                data |-> CloseResult(ex[e], code)])
                                ELSE @,
                  ![e].cleanup = cleanup]
    /\ activeProcesses' = Untrack(activeProcesses, e)
    /\ Settle(e)
    /\ UNCHANGED <<scn, built, lint, nCalls, nUpdates, nKillAll, killSent, thrown>>

\* lines 248-254: the Result built by the error handler of executeDirectly
ErrorResult(x, message) ==
    [success |-> FALSE, stdout |-> x.stdout, stderr |-> x.stderr \o message, exitCode |-> 1]

\* the error handler: the process could not be spawned
ProcError(e) ==
    /\ ex[e].proc = "spawnfail"
    /\ ex' = [ex EXCEPT
                ![e].proc = "errored",
                ![e].timer = IF @ = "armed" THEN "cleared" ELSE @,
                ![e].pc = IF Streaming(ex[e]) THEN "rejected" ELSE "done",
                ![e].result = IF Streaming(ex[e]) THEN None
                              ELSE Some(ErrorResult(ex[e], ErrENOENT)),
                ![e].via = "error",
                ![e].events = IF Streaming(ex[e])
                              THEN Append(@, [type |-> "error", data |-> ErrENOENT])
                              ELSE @]
    /\ activeProcesses' = Untrack(activeProcesses, e)
    /\ Settle(e)
    /\ UNCHANGED <<scn, built, lint, nCalls, nUpdates, nKillAll, killSent, thrown>>

\* the close event the runtime emits after the error event of a process that
\* failed to spawn, with the negated error number as its code: the close
\* handler runs on a promise that is settled already
CloseAfterError(e) ==
    /\ ex[e].proc = "errored"
    /\ \E cleanup \in Cleanups(ex[e]) :
         ex' = [ex EXCEPT
                  ![e].proc = "errclosed", ![e].exitCode = Some(-2),
                  ![e].events = IF Streaming(ex[e])
                                THEN Append(@, [type |-> "complete",
                                                data |-> CloseResult(ex[e], Some(-2))])
                                ELSE @,
                  ![e].cleanup = cleanup]
    /\ activeProcesses' = Untrack(activeProcesses, e)
    /\ UNCHANGED <<scn, built, lint, config, hist, nCalls, nUpdates, nKillAll, killSent, thrown>>

(* ---------------------------------------------------------------------- *)
(* killAllProcesses                                                        *)
(* ---------------------------------------------------------------------- *)

\* the loop without its try/catch: it ends at the first process, in insertion
\* order, for which kill throws
KillEachNoCatch(procs, failing) ==
    IF procs \cap failing = {}
    THEN [attempted |-> procs, signalled |-> procs, raised |-> FALSE]
    ELSE LET first == CHOOSE p \in procs \cap failing : \A q \in procs \cap failing : p <= q
         IN [attempted |-> {p \in procs : p <= first},
             signalled |-> {p \in procs : p < first}, raised |-> TRUE]

\* a loop over every call made, spawned or not
KillEachCalled(procs, failing) ==
    [attempted |-> Execs, signalled |-> Execs \ failing, raised |-> FALSE]

\* the loop of lines 330-336 over the processes procs, where kill throws for
\* those in failing: whom kill was called on, whom it signalled, and whether
\* an exception left the loop
KillEach(procs, failing) ==
    [attempted |-> procs, signalled |-> procs \ failing, raised |-> FALSE]

KillAllProcesses ==
    /\ Scenario(scn).killAll
    /\ nKillAll < MaxKillAll
    /\ \E failing \in SUBSET activeProcesses :
         LET loop == KillEach(activeProcesses, failing)
         IN /\ ex' = [e \in Execs |-> IF e \in loop.signalled THEN Kill(ex[e]) ELSE ex[e]]
            /\ hist' = [e \in Execs |->
                          [hist[e] EXCEPT !.killedByKillAll =
                               @ \/ (e \in loop.signalled /\ ex[e].proc = "alive")]]
            /\ activeProcesses' = IF loop.raised THEN activeProcesses ELSE {}
            /\ killSent' = killSent \cup loop.attempted
            /\ thrown' = (thrown \/ loop.raised)
    /\ nKillAll' = nKillAll + 1
    /\ UNCHANGED <<scn, built, lint, config, nCalls, nUpdates>>

(* ---------------------------------------------------------------------- *)
(* lintCode called directly                                                *)
(* ---------------------------------------------------------------------- *)
engineVars ==
    <<config, activeProcesses, ex, hist, nCalls, nUpdates, nKillAll, killSent, thrown>>

LintsCalled == {l \in Lints : lint[l].pc # "idle"}

\* what a direct call meets: the snippet, whether its file was written, and
\* the compile check spawned with the linter's path on that file
LintWorld(snip, file, linterPath, fault) ==
    [SnippetIn(snip, file) EXCEPT
        !.writeOk = fault # "write",
        !.writeError = IF fault = "write" THEN ErrENOSPC ELSE <<>>,
        !.cc = IF Spawnable(linterPath) THEN @
               ELSE [spawned |-> FALSE, error |-> ErrENOENT, code |-> 0, stderr |-> <<>>]]

\* a lintCode in which a failed deletion of the file reaches the catch block
LintResultCleanupThrows(world, strict, cleanup) ==
    IF cleanup = "failed" THEN lintCode([world EXCEPT !.writeOk = FALSE], strict)
    ELSE lintCode(world, strict)

\* the result of lintCode for what it met and for the outcome of its
\* cleanup, which cleanupTempFile keeps to itself
LintResult(world, strict, cleanup) == lintCode(world, strict)

\* lintCode is called: up to the await of createTempFile
LintCode ==
    /\ \E l \in Lints :
         /\ lint[l].pc = "idle"
         /\ \A k \in Lints : k < l => lint[k].pc # "idle"
         /\ \E snip \in LintInputs(scn).snips, strict \in LintInputs(scn).stricts,
               file \in LintInputs(scn).files :
              lint' = [lint EXCEPT ![l] = [BlankLint EXCEPT !.pc = "writing", !.snip = snip,
                                                            !.strict = strict, !.file = file]]
    /\ UNCHANGED <<scn, built>>
    /\ UNCHANGED engineVars

\* fs.writeFile rejects: the catch block of lintCode
LintWriteFailed(l) ==
    /\ lint[l].pc = "writing"
    /\ lint' = [lint EXCEPT
                  ![l].pc = "done", ![l].fault = "write",
                  ![l].result =
                      Some(LintResult(LintWorld(lint[l].snip, lint[l].file,
                                                built.linterPath, "write"),
                                      lint[l].strict, "none"))]
    /\ UNCHANGED <<scn, built>>
    /\ UNCHANGED engineVars

\* the file is written: checkSyntax spawns the compile check
LintWritten(l) ==
    /\ lint[l].pc = "writing"
    /\ lint' = [lint EXCEPT ![l].pc = "checking"]
    /\ UNCHANGED <<scn, built>>
    /\ UNCHANGED engineVars

\* the compile check closes or fails to spawn; lintCode goes on to the
\* security check, the cleanup it attempts at random, and its return
LintChecked(l) ==
    /\ lint[l].pc = "checking"
    /\ \E cleanup \in {"skipped", "deleted", "failed"} :
         LET fault == IF Spawnable(built.linterPath) THEN "none" ELSE "spawn"
             world == LintWorld(lint[l].snip, lint[l].file, built.linterPath, fault)
         IN lint' = [lint EXCEPT
                       ![l].pc = "done", ![l].fault = fault, ![l].cc = Some(world.cc),
                       ![l].cleanup = cleanup,
                       ![l].result = Some(LintResult(world, lint[l].strict, cleanup))]
    /\ UNCHANGED <<scn, built>>
    /\ UNCHANGED engineVars

(* ---------------------------------------------------------------------- *)
(* The engine                                                              *)
(* ---------------------------------------------------------------------- *)
Next ==
    \/ ExecuteCode
    \/ ExecuteUnsafe
    \/ UpdateConfig
    \/ KillAllProcesses
    \/ \E e \in Execs : LintDone(e)
    \/ \E e \in Execs : WriteFailed(e)
    \/ \E e \in Execs : WriteDone(e)
    \/ \E e \in Execs : StdoutData(e)
    \/ \E e \in Execs : StderrData(e)
    \/ \E e \in Execs : TimerFire(e)
    \/ \E e \in Execs : Close(e)
    \/ \E e \in Execs : ProcError(e)
    \/ \E e \in Execs : CloseAfterError(e)
    \/ LintCode
    \/ \E l \in Lints : LintWriteFailed(l)
    \/ \E l \in Lints : LintWritten(l)
    \/ \E l \in Lints : LintChecked(l)

Spec == Init /\ [][Next]_vars

(* ---------------------------------------------------------------------- *)
(* Claims                                                                  *)
(* ---------------------------------------------------------------------- *)
Called == {e \in Execs : ex[e].pc # "idle"}
Terminal == {"closed", "errored", "errclosed"}
TimeoutEvents(e) == {i \in 1..Len(ex[e].events) : ex[e].events[i].type = "timeout"}

\* C1: a call whose effective timeout is 0 (its own timeout of 0, or none of
\* its own and a policy timeout of 0) arms no timer: its process is never
\* killed by a timer and no timeout notification is emitted.
C1_ZeroTimeoutArmsNoTimer ==
    \A e \in Called :
        (ex[e].kind = "execute" /\ hist[e].effectiveTimeout = Some(0)) =>
            /\ ex[e].timer = "none"
            /\ ~hist[e].killedByTimer
            /\ TimeoutEvents(e) = {}

\* C2: when an executeUnsafe call has settled, enableLinting and
\* allowUnsafeOperations are what they were before the call, and if no
\* updateConfig ran in between the whole policy is what it was.
C2_UnsafeRestoresPolicy ==
    \A e \in Called :
        (ex[e].kind = "unsafe" /\ hist[e].cfgAtSettle # None) =>
            LET before == hist[e].cfgAtCall[1]
                after == hist[e].cfgAtSettle[1]
            IN /\ after.enableLinting = before.enableLinting
               /\ after.allowUnsafeOperations = before.allowUnsafeOperations
               /\ (hist[e].updatesAtSettle = hist[e].updatesAtCall => after = before)

\* an executeUnsafe call has settled, by a Result of its process or by the
\* failure of its file write, on an engine whose policy it had to force
C2_Witness ==
    \E e \in Called :
        /\ ex[e].kind = "unsafe"
        /\ hist[e].cfgAtSettle # None
        /\ hist[e].updatesAtSettle = hist[e].updatesAtCall
        /\ hist[e].cfgAtCall[1].enableLinting
        /\ ~hist[e].cfgAtCall[1].allowUnsafeOperations

\* C3: the policy executeUnsafe forces applies to that call only: an
\* executeCode call made while an executeUnsafe call is in flight is gated by
\* analysis, and a stdout chunk streamed meanwhile is limited, as the policy
\* configured before that executeUnsafe call says.
C3_UnsafePolicyIsExactlyThatCall ==
    \A u \in Called :
        (ex[u].kind = "unsafe" /\ hist[u].unsafeAtCall = {}) =>
            \A e \in Called :
                ex[e].kind = "execute" =>
                    /\ (u \in hist[e].unsafeAtCall /\ hist[e].updatesAtCall = hist[u].updatesAtCall)
                         => (ex[e].gated <=> Gates(hist[u].cfgAtCall[1], ex[e].options))
                    /\ \A i \in 1..Len(hist[e].chunks) :
                         LET c == hist[e].chunks[i]
                         IN (/\ Streaming(ex[e])
                             /\ u \in c.unsafeInFlight
                             /\ c.updates = hist[u].updatesAtCall)
                              => (c.emitted <=>
                                    EmitsStdout(hist[u].cfgAtCall[1],
                                                c.before + LineBoundaries(c.data)))

\* C4: killAllProcesses calls kill on every tracked process, leaves the
\* tracked set empty, lets no exception out even when a kill fails, and
\* changes nothing of the engine when the tracked set is empty already.
C4_KillAllContract ==
    [][ nKillAll' # nKillAll =>
          /\ activeProcesses' = {}
          /\ ~thrown'
          /\ activeProcesses \subseteq killSent'
          /\ (activeProcesses = {} => UNCHANGED <<config, ex, killSent>>) ]_vars

\* killAllProcesses has run on a tracked process whose kill failed
C4_Witness ==
    /\ nKillAll > 0
    /\ \E p \in killSent : ex[p].proc = "alive" /\ p \notin activeProcesses

\* C5: a process is in the tracked set exactly if it has been spawned and has
\* not yet reported close or error.
C5_TrackedIffLive ==
    \A e \in Execs :
        e \in activeProcesses <=> (ex[e].proc # "none" /\ ex[e].proc \notin Terminal)

\* C6: a handle leaves the tracked set exactly in the step in which its
\* process reports its terminal event (close or error).
C6_ReleasedOnTerminalEvent ==
    [][ \A e \in Execs :
          (e \in activeProcesses /\ e \notin activeProcesses')
             <=> (ex[e].proc \notin Terminal /\ ex'[e].proc \in Terminal) ]_vars

\* C7: the policy is read once when an execution starts: the interpreter
\* path executeCode spawns, its working directory, its base environment, the
\* delay of its timer and the limit on its streamed stdout are those of the
\* policy at the time of the call (on an engine nobody calls executeUnsafe on).
C7_PolicyReadOnceAtStart ==
    (\A u \in Execs : ex[u].kind # "unsafe") =>
        \A e \in Called :
            LET atCall == hist[e].cfgAtCall[1]
            IN /\ ex[e].spawnArgs # None =>
                    LET used == ex[e].spawnArgs[1]
                        expected == SpawnArgs(atCall, ex[e].options)
                    IN /\ used.pythonPath = expected.pythonPath
                       /\ used.cwd = expected.cwd
                       /\ \A k \in EnvKeys \ {"PYTHON_INTERPRETER_CONFIG"} :
                            used.env[k] = expected.env[k]
                       /\ ex[e].delay = TimerDelay(atCall, ex[e].options)
               /\ \A i \in 1..Len(hist[e].chunks) :
                    LET c == hist[e].chunks[i]
                    IN Streaming(ex[e]) =>
                         (c.emitted <=> EmitsStdout(atCall, c.before + LineBoundaries(c.data)))

Messages(errors) == [i \in 1..Len(errors) |-> errors[i].message]

\* C8: a call that analysis gates and whose lint result is invalid returns a
\* failed Result (success false, exit code nonzero, empty stdout, stderr the
\* error messages joined in order) and writes no execution file, spawns no
\* process and is never tracked.
C8_InvalidSnippetIsNotRun ==
    \A e \in Called :
        (ex[e].lintResult # None /\ ~ex[e].lintResult[1].isValid) =>
            /\ ex[e].gated
            /\ ex[e].pc = "done"
            /\ ex[e].result # None
            /\ ~ex[e].result[1].success
            /\ ex[e].result[1].exitCode # 0
            /\ ex[e].result[1].stdout = <<>>
            /\ ex[e].result[1].stderr = Join(Messages(ex[e].lintResult[1].errors), NL)
            /\ ex[e].sanitizedCode = None
            /\ ~ex[e].fileWritten
            /\ ex[e].spawnArgs = None
            /\ ex[e].proc = "none"
            /\ ex[e].timer = "none"
            /\ e \notin activeProcesses

\* a gated call was turned away with two error messages
C8_Witness ==
    \E e \in Called :
        /\ ex[e].gated
        /\ ex[e].lintResult # None
        /\ Len(ex[e].lintResult[1].errors) = 2
        /\ ex[e].via = "lint"
        /\ Includes(ex[e].result[1].stderr, <<NL>>)

C10_SuccessIffExitCodeZero ==
    \A e \in Called :
        ex[e].via = "close" =>
            (ex[e].result[1].success <=> ex[e].result[1].exitCode = 0)

EventsOf(e, type) == {i \in 1..Len(ex[e].events) : ex[e].events[i].type = type}

\* C11: a process that is running when its timer fires is killed, and its
\* call settles only by a Result with success false; in streaming mode
\* exactly one timeout notification is emitted for it, before its complete
\* event.
C11_TimerKillFailsTheCall ==
    \A e \in Called :
        hist[e].killedByTimer =>
            /\ ex[e].proc \in {"killed", "closed"}
            /\ ex[e].pc \in {"running", "done"}
            /\ (ex[e].proc = "closed" <=> ex[e].pc = "done")
            /\ (ex[e].pc = "done" => ex[e].result # None /\ ~ex[e].result[1].success)
            /\ (Streaming(ex[e]) =>
                  /\ Cardinality(EventsOf(e, "timeout")) = 1
                  /\ \A t \in EventsOf(e, "timeout"), c \in EventsOf(e, "complete") : t < c)

\* a streaming call whose process the timer killed has resolved, its timeout
\* notification emitted before its complete event
C11_Witness ==
    \E e \in Called :
        /\ Streaming(ex[e])
        /\ hist[e].killedByTimer
        /\ ex[e].pc = "done"
        /\ ~ex[e].result[1].success
        /\ EventsOf(e, "timeout") # {}
        /\ EventsOf(e, "complete") # {}

\* C12: a call whose process fails to spawn resolves to a failed Result
\* (success false, the diagnostic in stderr), in collect mode and in
\* streaming mode; it never rejects.
C12_SpawnFailureResolves ==
    \A e \in Called :
        ex[e].via = "error" =>
            /\ ex[e].pc = "done"
            /\ ex[e].result # None
            /\ ~ex[e].result[1].success
            /\ Includes(ex[e].result[1].stderr, ErrENOENT)

\* C13: in streaming mode the complete event of an execution carries the
\* Result its call resolves to and is the last event of the execution.
C13_CompleteIsLast ==
    \A e \in Called :
        Streaming(ex[e]) =>
            \A i \in EventsOf(e, "complete") :
                /\ i = Len(ex[e].events)
                /\ ex[e].pc = "done"
                /\ ex[e].result = Some(ex[e].events[i].data)

\* C14: in streaming mode, when allowUnsafeOperations is false, a stdout chunk
\* is emitted exactly if the line boundaries counted in the stdout received
\* before it are fewer than maxOutputLines.
C14_SuppressionStartsAtLimit ==
    \A e \in Called :
        Streaming(ex[e]) =>
            \A i \in 1..Len(hist[e].chunks) :
                LET c == hist[e].chunks[i]
                IN ~c.allowUnsafe => (c.emitted <=> c.before < c.limit)

\* C15: in streaming mode the line limit kills no process (a process is
\* killed by its timer or by killAllProcesses only), every stderr chunk is
\* emitted, and no stdout chunk is suppressed while allowUnsafeOperations is
\* true.
C15_LimitOnlySuppressesStdout ==
    \A e \in Called :
        Streaming(ex[e]) =>
            /\ Cardinality(EventsOf(e, "stderr")) = hist[e].errChunks
            /\ \A i \in 1..Len(hist[e].chunks) :
                  hist[e].chunks[i].allowUnsafe => hist[e].chunks[i].emitted
            /\ (ex[e].proc = "killed" \/ (ex[e].proc = "closed" /\ ex[e].exitCode = None))
                  => (hist[e].killedByTimer \/ hist[e].killedByKillAll)

\* a streaming call has had a stdout chunk suppressed at the limit and then a
\* stderr chunk emitted, its process still running
C15_Witness ==
    \E e \in Called :
        /\ Streaming(ex[e])
        /\ ex[e].proc = "alive"
        /\ \E i \in 1..Len(hist[e].chunks) :
              ~hist[e].chunks[i].emitted /\ ~hist[e].chunks[i].allowUnsafe
        /\ \E j \in 1..Len(hist[e].errCounts) :
              hist[e].errCounts[j] >= config.maxOutputLines
        /\ EventsOf(e, "stderr") # {}

\* C16: the environment of the spawned process is the base environment of
\* the policy overlaid by the per-call environment: a key of the per-call
\* environment has the per-call value, every other key the base value.
C16_EnvIsBaseOverlaidByCall ==
    \A e \in Called :
        (ex[e].kind = "execute" /\ ex[e].spawnArgs # None) =>
            ex[e].spawnArgs[1].env =
                Overlay(hist[e].cfgAtCall[1].environment, OptionsEnv(ex[e].options))

UnrelatedFields == {"pythonPath", "timeout", "maxOutputLines"}

\* C17: createInterpreter yields enableLinting true and
\* allowUnsafeOperations false whatever it is given, and the interpreter
\* path, timeout and maxOutputLines it is given.
C17_SafeConstructorFloor ==
    built.how = "createInterpreter" =>
        /\ built.config.enableLinting
        /\ ~built.config.allowUnsafeOperations
        /\ \A k \in UnrelatedFields :
              built.custom[k] # None => built.config[k] = built.custom[k][1]

\* an engine built by createInterpreter from a config that disables linting
\* and allows unsafe operations has gated a call by analysis
C17_Witness ==
    /\ built.how = "createInterpreter"
    /\ built.custom.enableLinting = Some(FALSE)
    /\ built.custom.allowUnsafeOperations = Some(TRUE)
    /\ \E e \in Called : ex[e].gated /\ ex[e].strict

\* C18: createUnsafeInterpreter yields enableLinting false and
\* allowUnsafeOperations true whatever it is given, and the interpreter
\* path, timeout and maxOutputLines it is given.
C18_UnsafeConstructorForces ==
    built.how = "createUnsafeInterpreter" =>
        /\ ~built.config.enableLinting
        /\ built.config.allowUnsafeOperations
        /\ \A k \in UnrelatedFields :
              built.custom[k] # None => built.config[k] = built.custom[k][1]

\* b is at least as permissive as a in every field; a timeout of 0 is unlimited
AtLeastAsPermissive(a, b) ==
    /\ (b.timeout = 0 \/ (a.timeout # 0 /\ a.timeout <= b.timeout))
    /\ a.maxOutputLines <= b.maxOutputLines
    /\ (b.enableLinting => a.enableLinting)
    /\ (a.allowUnsafeOperations => b.allowUnsafeOperations)

\* C19: each preset after the first is at least as permissive as the one
\* before it in timeout, maxOutputLines, enableLinting and
\* allowUnsafeOperations, and differs from it.
C19_PresetsEscalate ==
    (built.how = "createQuickInterpreter" /\ built.custom = NoConfig) =>
        \A i \in 2..Len(Presets) :
            built.preset = Presets[i] =>
                LET previous == createQuickInterpreter(Presets[i - 1], NoConfig)
                IN /\ AtLeastAsPermissive(previous, built.config)
                   /\ previous # built.config

\* C20: in a policy built by createQuickInterpreter every field has the
\* value of the custom config if it gives one, else the preset's if it gives
\* one, else the default of the constructor.
C20_QuickMergeOrder ==
    built.how = "createQuickInterpreter" =>
        \A k \in DOMAIN DefaultConfig :
            built.config[k] =
                IF built.custom[k] # None THEN built.custom[k][1]
                ELSE IF baseConfig(built.preset)[k] # None THEN baseConfig(built.preset)[k][1]
                ELSE DefaultConfig[k]

\* an engine built from the safe preset with a custom config that disables
\* linting and allows unsafe operations has run a call without analysis
C20_Witness ==
    /\ built.how = "createQuickInterpreter"
    /\ built.preset = "safe"
    /\ built.custom.enableLinting = Some(FALSE)
    /\ built.custom.allowUnsafeOperations = Some(TRUE)
    /\ ~built.config.enableLinting
    /\ \E e \in Called : ~ex[e].gated /\ ex[e].proc = "alive"

LintsDone == {l \in Lints : lint[l].pc = "done"}
ResultOf(l) == lint[l].result[1]
\* the calls whose file was written and whose security check was not switched off
Screened == {l \in LintsDone : lint[l].fault # "write" /\ lint[l].strict # Some(FALSE)}
LinesOf(l) == Split(SnippetIn(lint[l].snip, lint[l].file).code, NL)
WarningsAt(l, i) == {w \in 1..Len(ResultOf(l).warnings) : ResultOf(l).warnings[w].line = i}
MatchesTable(line) ==
    \E k \in 1..Len(dangerousPatterns) :
        RegexTest(line, dangerousPatterns[k].kw1, dangerousPatterns[k].min,
                  dangerousPatterns[k].kw2)

\* C21: updateConfig sets exactly the fields its argument gives and leaves
\* every other field as it was, whatever the combination, and getConfig
\* returns that policy next.
C21_UpdateSetsExactlyGivenFields ==
    [][nUpdates' # nUpdates =>
          \E p \in Scenario(scn).updates :
              \A k \in DOMAIN config :
                  getConfig(config')[k] = IF p[k] # None THEN p[k][1] ELSE config[k]]_vars

\* an engine built by createInterpreter was updated to allow unsafe
\* operations while analysis stays enabled
C21_Witness ==
    /\ built.how = "createInterpreter"
    /\ nUpdates > 0
    /\ getConfig(config).allowUnsafeOperations
    /\ getConfig(config).enableLinting
    /\ ~built.config.allowUnsafeOperations

\* C22: every result of lintCode, from its normal path or from its catch
\* block, has isValid true exactly when its errors list is empty, whatever
\* its warnings.
C22_ValidIffNoErrors ==
    /\ \A l \in LintsDone : ResultOf(l).isValid <=> (ResultOf(l).errors = <<>>)
    /\ \A e \in Called :
          ex[e].lintResult # None =>
              (ex[e].lintResult[1].isValid <=> (ex[e].lintResult[1].errors = <<>>))

\* one call returned a valid result that holds warnings, another returned
\* from the catch block
C22_Witness ==
    \E l, m \in LintsDone :
        /\ ResultOf(l).isValid
        /\ Len(ResultOf(l).warnings) >= 1
        /\ lint[m].fault = "write"
        /\ ~ResultOf(m).isValid

\* C23: a compile check that exits nonzero with a non-empty diagnostic
\* yields at least one error, each of severity "error", whatever the
\* diagnostic says; a compile check that exits with 0 yields no error and a
\* valid result.
C23_NonzeroExitYieldsErrors ==
    \A l \in LintsDone :
        (lint[l].cc # None /\ lint[l].cc[1].spawned) =>
            /\ (lint[l].cc[1].code # 0 /\ lint[l].cc[1].stderr # <<>>) =>
                   /\ Len(ResultOf(l).errors) >= 1
                   /\ \A i \in 1..Len(ResultOf(l).errors) :
                          ResultOf(l).errors[i].severity = "error"
            /\ lint[l].cc[1].code = 0 =>
                   (ResultOf(l).errors = <<>> /\ ResultOf(l).isValid)

\* C24: every line of the snippet that matches the pattern table gets exactly
\* one warning, with rule "security-warning" and the line's 1-based number,
\* also when it matches several patterns; a line that matches none gets none.
C24_OneWarningPerMatchingLine ==
    \A l \in Screened :
        /\ \A i \in 1..Len(LinesOf(l)) :
              Cardinality(WarningsAt(l, i)) = IF MatchesTable(LinesOf(l)[i]) THEN 1 ELSE 0
        /\ \A w \in 1..Len(ResultOf(l).warnings) :
              /\ ResultOf(l).warnings[w].rule = "security-warning"
              /\ ResultOf(l).warnings[w].line \in 1..Len(LinesOf(l))

\* an import of a module under another name, or of names from a module
AliasedImportLine(line) ==
    \/ StartsAt(line, KwFrom, 1)
    \/ StartsAt(line, KwImport, 1) /\ Includes(line, KwAs)

\* C25: a line that imports a risky module through an aliased or renamed
\* binding ("import os as x", "from os import f") gets no warning.
C25_AliasedImportNotWarned ==
    \A l \in Screened :
        \A i \in 1..Len(LinesOf(l)) :
            AliasedImportLine(LinesOf(l)[i]) => WarningsAt(l, i) = {}

\* "import os", "import subprocess" and "import sys", each a line of its own
UnaliasedImportLines ==
    {KwImport \o <<" ">> \o KwOs, KwImport \o <<" ">> \o KwSubprocess,
     KwImport \o <<" ">> \o KwSys}
ImportWarned(l) ==
    \A i \in 1..Len(LinesOf(l)) :
        LinesOf(l)[i] \in UnaliasedImportLines =>
            \E w \in WarningsAt(l, i) : ResultOf(l).warnings[w].rule = "security-warning"

SameWorld(l, m) ==
    /\ lint[l].snip = lint[m].snip
    /\ lint[l].file = lint[m].file
    /\ lint[l].fault = lint[m].fault

C28_SameInputSameLists ==
    \A l, m \in LintsDone :
        (/\ lint[l].snip = lint[m].snip
         /\ lint[l].strict = lint[m].strict
         /\ lint[l].fault = "none"
         /\ lint[m].fault = "none") =>
            /\ ResultOf(l).errors = ResultOf(m).errors
            /\ ResultOf(l).warnings = ResultOf(m).warnings

\* C29: every call of lintCode resolves; one that could not write its file
\* or could not spawn the compile check resolves to an invalid result with
\* an error of severity "error" that carries the failure's message.
C29_FailureResolvesInvalid ==
    \A l \in LintsCalled :
        /\ lint[l].pc = "done" <=> lint[l].result # None
        /\ (lint[l].pc = "done" /\ lint[l].fault # "none") =>
              /\ ~ResultOf(l).isValid
              /\ \E i \in 1..Len(ResultOf(l).errors) :
                    /\ ResultOf(l).errors[i].severity = "error"
                    /\ Includes(ResultOf(l).errors[i].message,
                                IF lint[l].fault = "write" THEN ErrENOSPC ELSE ErrENOENT)

\* one call could not write its file and another could not spawn the
\* compile check
C29_Witness ==
    \E l, m \in LintsDone :
        /\ lint[l].fault = "write"
        /\ lint[m].fault = "spawn"
        /\ ~ResultOf(l).isValid
        /\ ~ResultOf(m).isValid

\* C30: what becomes of the transient file never shows: two calls of lintCode
\* that met the same return the same result, two executions that closed
\* with the same exit code and output return the same Result, and every
\* such call resolves.
C30_CleanupNeverSurfaces ==
    /\ \A l, m \in LintsDone :
          (SameWorld(l, m) /\ lint[l].strict = lint[m].strict) =>
              lint[l].result = lint[m].result
    /\ \A e \in Called :
          ex[e].via = "close" => (ex[e].pc = "done" /\ ex[e].result # None)
    /\ \A e, f \in Called :
          (/\ ex[e].via = "close" /\ ex[f].via = "close"
           /\ ex[e].exitCode = ex[f].exitCode
           /\ ex[e].stdout = ex[f].stdout
           /\ ex[e].stderr = ex[f].stderr) =>
              ex[e].result = ex[f].result

\* two calls met the same; the deletion failed for one and was skipped for
\* the other
C30_Witness ==
    \E l, m \in LintsDone :
        /\ SameWorld(l, m)
        /\ lint[l].strict = lint[m].strict
        /\ lint[l].cleanup = "failed"
        /\ lint[m].cleanup = "skipped"
        /\ lint[l].result = lint[m].result

Bypassing == {e \in Called : ex[e].kind = "unsafe" /\ hist[e].bypass}
Settled == {e \in Called : ex[e].pc \in {"done", "rejected"}}
OwnStdout(e) == Concat([i \in 1..Len(hist[e].chunks) |-> hist[e].chunks[i].data])

\* C31: concurrent executions are independent: the timer expiry, the output
\* and the terminal event of one execution leave every other execution as it
\* is (its process, its timer, its promise) and leave it tracked if it was,
\* and the stdout of a call's Result is the output of its own process only.
C31_ExecutionsIndependent ==
    /\ [](\A e \in Called :
            ex[e].result # None =>
                /\ ex[e].via \in {"close", "error"} => ex[e].result[1].stdout = OwnStdout(e)
                /\ \A i \in 1..Len(hist[e].chunks) :
                      hist[e].chunks[i].data \in StdoutChunks(e))
    /\ [][\A e \in Execs :
            (\/ ex[e].timer = "armed" /\ ex'[e].timer # "armed"
             \/ ex[e].proc # ex'[e].proc /\ ex'[e].proc \in Terminal
             \/ ex'[e].stdout # ex[e].stdout
             \/ ex'[e].stderr # ex[e].stderr)
                => \A f \in Execs \ {e} :
                      /\ ex'[f] = ex[f]
                      /\ f \in activeProcesses' <=> f \in activeProcesses]_vars

\* the second call was killed by its timer and has resolved with its own
\* output while the first, called before it, still runs, tracked, with its
\* timer armed and its own output
C31_Witness ==
    /\ ex[2].pc = "done" /\ hist[2].killedByTimer
    /\ ex[2].result[1].stdout = OwnStdout(2) /\ Len(hist[2].chunks) = 1
    /\ ex[1].pc = "running" /\ ex[1].proc = "alive" /\ ex[1].timer = "armed"
    /\ 1 \in activeProcesses
    /\ ex[1].stdout = OwnStdout(1) /\ Len(hist[1].chunks) = 1
    /\ ex[1].stdout # ex[2].stdout

\* C32: every call that has settled has settled with a Result whose fields
\* are populated, whatever the path: analysis gate, file write failure, spawn
\* fault, timeout kill, killAllProcesses, normal closure.
C32_SettlesWithResult ==
    \A e \in Settled :
        /\ ex[e].pc = "done"
        /\ ex[e].result # None
        /\ DOMAIN ex[e].result[1] = {"success", "stdout", "stderr", "exitCode"}

\* C33: an executeUnsafe call with bypassSandbox true runs its process with
\* no timeout: no timer is armed for it, none fires and none kills its
\* process, whatever the timeout of the policy.
C33_BypassHasNoTimer ==
    \A e \in Bypassing :
        /\ ex[e].timer \notin {"armed", "fired"}
        /\ ~hist[e].killedByTimer

\* C34: when every executeUnsafe call made has settled and no updateConfig
\* has run, enableLinting and allowUnsafeOperations are what they were
\* before the first of these calls, whatever the order of their settling.
C34_OverlappingUnsafeRestore ==
    (/\ nUpdates = 0
     /\ \A e \in Called : ex[e].kind = "unsafe" /\ ~InFlight(ex[e])) =>
        /\ config.enableLinting = built.config.enableLinting
        /\ config.allowUnsafeOperations = built.config.allowUnsafeOperations

\* C35: for every execution that wrote its file and whose process has
\* reported its last event (close, also after the error of a failed spawn),
\* the deletion of the file has been attempted, in collect and streaming
\* mode.
C35_DeletionAttemptedOnTerminal ==
    \A e \in Called :
        (ex[e].fileWritten /\ ex[e].proc \in {"closed", "errclosed"}) =>
            ex[e].cleanup \in {"deleted", "failed"}

\* C36: an execution goes through its stages in order and once: analysis,
\* when it gates, is over before the file is written, the file is written
\* before the process is spawned, events are emitted only after the spawn,
\* and once the call has settled it spawns, emits and resolves no more.
C36_SingleShotOrder ==
    /\ [](\A e \in Called :
            /\ (ex[e].fileWritten /\ ex[e].gated) => ex[e].lintResult # None
            /\ ex[e].spawnArgs # None => ex[e].fileWritten
            /\ ex[e].events # <<>> => ex[e].spawnArgs # None)
    /\ [][\A e \in Settled :
            /\ ex'[e].events = ex[e].events
            /\ ex'[e].result = ex[e].result
            /\ ex'[e].pc = ex[e].pc
            /\ ex'[e].spawnArgs = ex[e].spawnArgs]_vars

\* C37: a call made in streaming mode that has returned a Result has emitted
\* exactly one complete event, and that event carries the Result.
C37_OneCompletePerStreamingResult ==
    \A e \in Called :
        (Streaming(ex[e]) /\ ex[e].pc = "done" /\ ex[e].result # None) =>
            /\ Cardinality(EventsOf(e, "complete")) = 1
            /\ \A i \in EventsOf(e, "complete") : ex[e].events[i].data = ex[e].result[1]

\* C38: when an executeUnsafe call settles, enableLinting and
\* allowUnsafeOperations take the values captured when it started, whatever
\* updateConfig made of them meanwhile, and every other field of the policy
\* keeps the value it has then.
C38_SettleOverwritesUpdates ==
    [][\A e \in Execs :
          (ex[e].kind = "unsafe" /\ InFlight(ex[e]) /\ ~InFlight(ex'[e])) =>
              /\ config'.enableLinting = ex[e].originalEnableLinting
              /\ config'.allowUnsafeOperations = ex[e].originalAllowUnsafe
              /\ \A k \in DOMAIN config \ {"enableLinting", "allowUnsafeOperations"} :
                    config'[k] = config[k]]_vars

\* an updateConfig that enabled linting, forbade unsafe operations and set
\* the timeout ran while an executeUnsafe call was in flight; the call has
\* settled and only the timeout is left of the update
C38_Witness ==
    \E e \in Called :
        /\ ex[e].kind = "unsafe"
        /\ hist[e].cfgAtSettle # None
        /\ hist[e].updatesAtSettle > hist[e].updatesAtCall
        /\ ~hist[e].cfgAtCall[1].enableLinting
        /\ hist[e].cfgAtCall[1].allowUnsafeOperations
        /\ ~hist[e].cfgAtSettle[1].enableLinting
        /\ hist[e].cfgAtSettle[1].allowUnsafeOperations
        /\ hist[e].cfgAtSettle[1].timeout = 5000
        /\ hist[e].cfgAtCall[1].timeout # 5000

\* C39: killAllProcesses leaves alone a call that is still at its analysis
\* or at its file write: kill is not called for it, it stays as it is, and
\* when its file is written its process is spawned and tracked.
C39_KillAllSparesUnspawned ==
    [][\A e \in Execs :
          /\ (nKillAll' # nKillAll /\ ex[e].pc \in {"linting", "writing"}) =>
                (ex'[e] = ex[e] /\ e \notin killSent')
          /\ (ex[e].pc = "writing" /\ ex'[e].pc = "running") =>
                (e \in activeProcesses' /\ ex'[e].proc \in {"alive", "spawnfail"})]_vars

\* a call made before killAllProcesses ran was spawned after it: its process
\* is alive and tracked, and kill was never called on it
C39_Witness ==
    \E e \in Called :
        /\ nKillAll > 0
        /\ hist[e].killAllAtCall = 0
        /\ ex[e].proc = "alive"
        /\ e \in activeProcesses
        /\ e \notin killSent

====
